---- MODULE Spec2Model ----
(***************************************************************************)
(* StewardView backend: timelapse regeneration and caching.                *)
(*                                                                         *)
(* The model follows backend/services/timelapseService.js (the version     *)
(* with regenerationLocks), backend/routes/api.js and the Drive client.    *)
(* Every `await` of the code is one atomic step: the remote call takes     *)
(* effect and returns, or it rejects.                                      *)
(***************************************************************************)
EXTENDS Integers, Sequences, FiniteSets, TLC

(***************************************************************************)
(* Bounds of the model.                                                    *)
(***************************************************************************)
MaxCalls == 2        \* regenerateAndStore calls (upload requests included)
MaxGens == 1         \* generate-timelapse requests
MaxInitImages == 2   \* photos in the hot trail before the first request
MaxInitGifs == 2     \* cached animations in the hot trail before the first request
MaxFaults == 1       \* failing store calls / decodes / stream errors per run
MaxCleanupLen == 2   \* entries of the imagePaths array handed to cleanup
MaxCleanupCalls == 2 \* successive cleanup calls with the same arguments
MaxRetriesTried == 2 \* largest options.maxRetries handed to retryWithBackoff
MaxStoreFaults == 1  \* failing upload-queue (IndexedDB) calls per uploadPhoto

\* retryHandler.js: the defaults of retryWithBackoff's options
DefaultMaxRetries == 5
InitialDelay == 1000
MaxDelay == 30000
BackoffMultiplier == 2
\* uploadPhoto: the maxRetries it hands to retryWithBackoff
UploadMaxRetries == 5

\* a path variable holding null
NoPath == ""

Orgs == {"org"}
Trails == {"t1", "t2"}
HotTrail == "t1"

Calls == 1..MaxCalls
Gens == 1..MaxGens

\* Values Date.now() can take when two requests compare them: equal or not.
Times == 1..MaxGens

VARIABLES
    files,              \* the Drive store: the set of file objects
    nextId,             \* the id Drive gives the next created file
    scratch,            \* the paths that exist in config.tempDir
    regenerationLocks,  \* TimelapseService.regenerationLocks (keys mapped to true)
    regen,              \* regen[c]: regenerateAndStore call c (of upload request c,
                        \* or called directly)
    upl,                \* upl[h]: the POST /:orgName/:trailName/upload handler h
    gen,                \* gen[g]: the POST /:orgName/generate-timelapse handler g
    faults,             \* failures injected so far
    janitor,            \* a call sequence of TimelapseService.cleanup on its own:
                        \* the arguments and what the calls did
    retry,              \* a retryWithBackoff call of the web client
    photo               \* an uploadPhoto call of the web client and its entry
                        \* in the upload queue

vars == <<files, nextId, scratch, regenerationLocks, regen, upl, gen, faults,
          janitor, retry, photo>>

\* the server side, and the cleanup calls
server == <<files, nextId, scratch, regenerationLocks, regen, upl, gen, faults,
            janitor>>

(***************************************************************************)
(* The Drive store.                                                        *)
(***************************************************************************)
CacheName == "_timelapse.gif"

\* createdTime as Drive reports it: seconds and milliseconds of an RFC 3339 stamp.
CreatedTimeOf(id) == <<(id * 3) % 7, id \div 7>>

\* new Date(file.createdTime).getTime()
GetTime(createdTime) == createdTime[1] * 1000 + createdTime[2]

ImageFile(id, org, trail) ==
    [id |-> id, org |-> org, trail |-> trail, name |-> "photo",
     mimeType |-> <<"image", "jpeg">>, createdTime |-> CreatedTimeOf(id),
     frames |-> <<>>]

\* an object of the trail folder that is not an image
NoteFile(id, org, trail) ==
    [id |-> id, org |-> org, trail |-> trail, name |-> "notes.txt",
     mimeType |-> <<"text", "plain">>, createdTime |-> CreatedTimeOf(id),
     frames |-> <<>>]

GifFile(id, org, trail, frames) ==
    [id |-> id, org |-> org, trail |-> trail, name |-> CacheName,
     mimeType |-> <<"image", "gif">>, createdTime |-> CreatedTimeOf(id),
     frames |-> frames]

FilesInTrail(org, trail) == {f \in files : f.org = org /\ f.trail = trail}

CacheEntries(org, trail) == {f \in FilesInTrail(org, trail) : f.name = CacheName}

Oldest(S) == CHOOSE x \in S : \A y \in S : GetTime(x.createdTime) <= GetTime(y.createdTime)

RECURSIVE Ascending(_)
Ascending(S) ==
    IF S = {} THEN <<>>
    ELSE <<Oldest(S)>> \o Ascending(S \ {Oldest(S)})

Reverse(s) == [i \in 1..Len(s) |-> s[Len(s) + 1 - i]]

\* The orders in which Drive may return a set of files: the code asks for
\* orderBy 'createdTime'; the reverse order is admitted too, so that no caller
\* can rely on the order of a listing.
Listings(S) == {Ascending(S), Reverse(Ascending(S))}

\* driveService.listFilesInTrail: the files of the trail folder.
ListFilesInTrail(org, trail) == Listings(FilesInTrail(org, trail))

\* driveService.getAllTimelapseGifs: every cached animation of the trail.
GetAllTimelapseGifs(org, trail) == Listings(CacheEntries(org, trail))

\* driveService.getTimelapseGif: a cached animation of the trail ({id}), or
\* null ({}).
GetTimelapseGif(org, trail) ==
    IF CacheEntries(org, trail) = {} THEN {{}}
    ELSE {{f.id} : f \in CacheEntries(org, trail)}

\* driveService.deleteFile
DeleteFile(id) == {f \in files : f.id # id}

\* driveService.uploadTimelapseGif: a new object under the reserved name.
UploadTimelapseGif(org, trail, frames) ==
    files \cup {GifFile(nextId, org, trail, frames)}

\* driveService.uploadFile: the photo becomes a new object of the trail folder.
UploadFile(org, trail) == files \cup {ImageFile(nextId, org, trail)}

(***************************************************************************)
(* Pure helpers of TimelapseService.                                       *)
(***************************************************************************)
LockKeyNoSeparator(org, trail) == org \o trail

\* `${orgSlug}:${trailName}`
LockKey(org, trail) == org \o ":" \o trail

LockedNever(lockKey) == FALSE

\* this.regenerationLocks.get(lockKey)
Locked(lockKey) == lockKey \in regenerationLocks

\* file.mimeType && file.mimeType.startsWith('image/')
StartsWithImage(mimeType) == Len(mimeType) > 0 /\ mimeType[1] = "image"

IsImageFileByMime(file) == StartsWithImage(file.mimeType)

\* the predicate of files.filter: an image that is not the cached animation
IsImageFile(file) == StartsWithImage(file.mimeType) /\ file.name # CacheName

ImageFilter(listing) == SelectSeq(listing, IsImageFile)

\* the file names path.join puts under config.tempDir
\* `${orgSlug}_${trailName}_${file.id}.jpg`
FramePath(org, trail, id) == org \o "_" \o trail \o "_" \o ToString(id) \o ".jpg"

\* `${orgSlug}_${trailName}_timelapse.gif`
RegenOutputPath(org, trail) == org \o "_" \o trail \o "_timelapse.gif"

\* `${orgSlug}_timelapse_${Date.now()}.gif`
GenOutputPath(org, now) == org \o "_timelapse_" \o ToString(now) \o ".gif"

\* `${orgSlug}_${trailName}_cached_${Date.now()}.gif`
CachedPath(org, trail, now) ==
    org \o "_" \o trail \o "_cached_" \o ToString(now) \o ".gif"

Range(s) == {s[i] : i \in 1..Len(s)}

\* the comparator of imageMetadata.sort
Compare(a, b) == a.createdTime - b.createdTime

RECURSIVE Insert(_, _)
Insert(x, s) ==
    IF s = <<>> THEN <<x>>
    ELSE IF Compare(Head(s), x) > 0 THEN <<x>> \o s
    ELSE <<Head(s)>> \o Insert(x, Tail(s))

NoSort(s) == s

\* imageMetadata.sort((a, b) => a.createdTime - b.createdTime): stable, ascending
RECURSIVE SortByCreatedTime(_)
SortByCreatedTime(s) ==
    IF s = <<>> THEN <<>>
    ELSE Insert(s[Len(s)], SortByCreatedTime(SubSeq(s, 1, Len(s) - 1)))

\* imageMetadata.map(img => img.path)
Paths(meta) == [i \in 1..Len(meta) |-> meta[i].path]

\* TimelapseService.cleanup(imagePaths, outputPath)
Cleanup(scr, imagePaths, outputPath) == (scr \ Range(imagePaths)) \ {outputPath}

(***************************************************************************)
(* TimelapseService.createGif as a state machine: one step per await.      *)
(*   st: "first"     awaiting loadImage(imagePaths[0]) for the dimensions  *)
(*       "frames"    awaiting loadImage(imagePaths[i - 1]) in the loop     *)
(*       "finishing" encoder.finish() called, awaiting the write stream    *)
(*       "resolved" / "rejected"                                           *)
(***************************************************************************)
NoEnc == [paths |-> <<>>, out |-> NoPath, i |-> 0, added |-> <<>>, st |-> "idle"]

\* createGif up to its first await
CreateGifCall(imagePaths, outputPath) ==
    [paths |-> imagePaths, out |-> outputPath, i |-> 0, added |-> <<>>,
     st |-> IF Len(imagePaths) = 0 THEN "rejected" ELSE "first"]

\* loadImage(path) can resolve only when the file exists
CanLoad(scr, path) == path \in scr

AfterFrameResolves(e, added) ==
    [e EXCEPT !.added = added, !.i = e.i + 1,
              !.st = IF e.i = Len(e.paths) THEN "resolved" ELSE "frames"]

\* the frame loop after the await at index i settled
AfterFrame(e, added) ==
    [e EXCEPT !.added = added, !.i = e.i + 1,
              !.st = IF e.i = Len(e.paths) THEN "finishing" ELSE "frames"]

\* The outcomes of the await createGif is at: the encoder afterwards, the
\* scratch directory afterwards, whether the outcome is an injected failure,
\* whether a frame failed to load.
CreateGifStep(e, scr) ==
    IF e.st = "first" THEN
        {[enc |-> [e EXCEPT !.st = "frames", !.i = 1], scratch |-> scr \cup {e.out},
          fault |-> FALSE, bad |-> FALSE] : x \in {p \in {e.paths[1]} : CanLoad(scr, p)}}
        \cup {[enc |-> [e EXCEPT !.st = "rejected"], scratch |-> scr,
               fault |-> CanLoad(scr, e.paths[1]), bad |-> TRUE]}
    ELSE IF e.st = "frames" THEN
        {[enc |-> AfterFrame(e, Append(e.added, p)), scratch |-> scr,
          fault |-> FALSE, bad |-> FALSE] : p \in {q \in {e.paths[e.i]} : CanLoad(scr, q)}}
        \cup {[enc |-> AfterFrame(e, e.added), scratch |-> scr,
               fault |-> CanLoad(scr, e.paths[e.i]), bad |-> TRUE]}
    ELSE IF e.st = "finishing" THEN
        {[enc |-> [e EXCEPT !.st = "resolved"], scratch |-> scr,
          fault |-> FALSE, bad |-> FALSE],
         [enc |-> [e EXCEPT !.st = "rejected"], scratch |-> scr,
          fault |-> TRUE, bad |-> TRUE]}
    ELSE {}

InjectFault == faults < MaxFaults /\ faults' = faults + 1

NoFault == faults' = faults

(***************************************************************************)
(* TimelapseService.regenerateAndStore                                     *)
(*   pc: "idle" (not called), "getGifs", "delete", "sleep", "list",        *)
(*       "download", "gif", "upload": the await the call is at; "done".    *)
(* acquired, exit, preGifs, failed, otherFail and uploaded record what     *)
(* happened in the call; the code does not read them.                      *)
(***************************************************************************)
NoRegen ==
    [pc |-> "idle", org |-> "", trail |-> "", acquired |-> FALSE,
     existingGifs |-> <<>>, gi |-> 0, imageFiles |-> <<>>, di |-> 0,
     imageMetadata |-> <<>>, allImages |-> <<>>, outputPath |-> NoPath,
     enc |-> NoEnc, result |-> "pending", exit |-> "",
     preGifs |-> {}, failed |-> {}, otherFail |-> FALSE, uploaded |-> FALSE]

ReleaseNothing(locks, lockKey) == locks

\* the finally block: this.regenerationLocks.delete(lockKey)
ReleaseLock(locks, lockKey) == locks \ {lockKey}

DownloadErrorEndsAll == TRUE

\* the try/catch around each downloadFile keeps a failed download from
\* ending the operation
DownloadErrorIsFatal == FALSE

CatchRethrows == "threw"

\* what the catch block of regenerateAndStore returns
CatchResult == "false"

\* the .then/.catch the upload handler chains on the returned promise
BackgroundLog(result) ==
    IF result = "true" THEN "completed"
    ELSE IF result = "false" THEN "skipped or failed"
    ELSE "error"

\* return from inside try/catch: the finally block deletes the lock, the
\* promise settles and the upload handler's callback logs the outcome
RegenReturn(c, r, result, exit) ==
    /\ regen' = [regen EXCEPT ![c] = [r EXCEPT !.pc = "done", !.result = result,
                                                !.exit = exit]]
    /\ regenerationLocks' = ReleaseLock(regenerationLocks, LockKey(r.org, r.trail))
    /\ upl' = [upl EXCEPT ![c].bg = IF upl[c].pc = "idle" THEN "none"
                                    ELSE BackgroundLog(result)]

\* the catch block: cleanup of what was downloaded so far, return false
RegenCatch(c, r, scr) ==
    /\ scratch' = Cleanup(scr, Paths(r.imageMetadata), r.outputPath)
    /\ RegenReturn(c, r, CatchResult, "caught")

RegenStay(c, r) ==
    /\ regen' = [regen EXCEPT ![c] = r]
    /\ UNCHANGED <<regenerationLocks, upl>>

\* Step 1: await driveService.getAllTimelapseGifs
RegenGetGifs(c) ==
    LET r == regen[c] IN
    /\ r.pc = "getGifs"
    /\ UNCHANGED <<janitor, retry, photo>>
    /\ UNCHANGED <<files, nextId, gen>>
    /\ \/ /\ NoFault
          /\ scratch' = scratch
          /\ \E gifs \in GetAllTimelapseGifs(r.org, r.trail) :
                RegenStay(c, [r EXCEPT
                    !.existingGifs = [i \in 1..Len(gifs) |-> gifs[i].id],
                    !.gi = 1,
                    !.pc = IF Len(gifs) > 0 THEN "delete" ELSE "list"])
       \/ /\ InjectFault
          /\ RegenCatch(c, [r EXCEPT !.otherFail = TRUE], scratch)

\* Step 1: await driveService.deleteFile(gif.id) inside its own try/catch
RegenDelete(c) ==
    LET r == regen[c]
        nxt == [r EXCEPT !.gi = r.gi + 1,
                         !.pc = IF r.gi = Len(r.existingGifs) THEN "sleep" ELSE "delete"]
    IN
    /\ r.pc = "delete"
    /\ UNCHANGED <<janitor, retry, photo>>
    /\ UNCHANGED <<nextId, gen, scratch>>
    /\ \/ /\ NoFault
          /\ files' = DeleteFile(r.existingGifs[r.gi])
          /\ RegenStay(c, nxt)
       \/ /\ InjectFault
          /\ files' = files
          /\ RegenStay(c, [nxt EXCEPT !.otherFail = TRUE])

\* Step 1: await the one second timer
RegenSleep(c) ==
    LET r == regen[c] IN
    /\ r.pc = "sleep"
    /\ RegenStay(c, [r EXCEPT !.pc = "list"])
    /\ UNCHANGED <<janitor, retry, photo>>
    /\ UNCHANGED <<files, nextId, gen, scratch, faults>>

\* Step 2: await driveService.listFilesInTrail, filter, empty check
RegenList(c) ==
    LET r == regen[c] IN
    /\ r.pc = "list"
    /\ UNCHANGED <<janitor, retry, photo>>
    /\ UNCHANGED <<files, nextId, gen>>
    /\ \/ /\ NoFault
          /\ scratch' = scratch
          /\ \E listing \in ListFilesInTrail(r.org, r.trail) :
                LET imageFiles == ImageFilter(listing) IN
                IF Len(imageFiles) = 0
                THEN RegenReturn(c, r, "false", "noImages")
                ELSE RegenStay(c, [r EXCEPT !.imageFiles = imageFiles, !.di = 1,
                                            !.pc = "download"])
       \/ /\ InjectFault
          /\ RegenCatch(c, [r EXCEPT !.otherFail = TRUE], scratch)

\* after the download loop: the empty check, Step 3 up to the first await
\* of createGif
RegenAfterDownloads(c, r) ==
    IF Len(r.imageMetadata) = 0
    THEN RegenReturn(c, r, "false", "noDownloads")
    ELSE LET sorted == SortByCreatedTime(r.imageMetadata)
             allImages == Paths(sorted)
             outputPath == RegenOutputPath(r.org, r.trail)
         IN RegenStay(c, [r EXCEPT !.imageMetadata = sorted,
                                   !.allImages = allImages,
                                   !.outputPath = outputPath,
                                   !.enc = CreateGifCall(allImages, outputPath),
                                   !.pc = "gif"])

\* the body of the download loop: await driveService.downloadFile inside its
\* own try/catch. downloadFile opens the destination before it asks Drive,
\* so a failed download leaves the file behind.
RegenDownload(c) ==
    LET r == regen[c]
        file == r.imageFiles[r.di]
        destPath == FramePath(r.org, r.trail, file.id)
        nxt == [r EXCEPT !.di = r.di + 1]
        after(x) == IF r.di = Len(r.imageFiles)
                    THEN RegenAfterDownloads(c, x)
                    ELSE RegenStay(c, x)
    IN
    /\ r.pc = "download"
    /\ UNCHANGED <<janitor, retry, photo>>
    /\ UNCHANGED <<files, nextId, gen>>
    /\ \/ /\ NoFault
          /\ scratch' = scratch \cup {destPath}
          /\ after([nxt EXCEPT !.imageMetadata = Append(r.imageMetadata,
                        [path |-> destPath, createdTime |-> GetTime(file.createdTime),
                         id |-> file.id])])
       \/ /\ InjectFault
          /\ IF DownloadErrorIsFatal
             THEN RegenCatch(c, [r EXCEPT !.failed = r.failed \cup {file.id}],
                             scratch \cup {destPath})
             ELSE /\ scratch' = scratch \cup {destPath}
                  /\ after([nxt EXCEPT !.failed = r.failed \cup {file.id}])

\* Step 3: await this.createGif
RegenCreateGif(c) ==
    LET r == regen[c] IN
    /\ r.pc = "gif"
    /\ UNCHANGED <<janitor, retry, photo>>
    /\ UNCHANGED <<files, nextId, gen>>
    /\ \E o \in CreateGifStep(r.enc, scratch) :
          LET x == [r EXCEPT !.enc = o.enc, !.otherFail = r.otherFail \/ o.bad] IN
          /\ IF o.fault THEN InjectFault ELSE NoFault
          /\ IF o.enc.st = "rejected"
             THEN RegenCatch(c, x, o.scratch)
             ELSE /\ scratch' = o.scratch
                  /\ RegenStay(c, [x EXCEPT !.pc = IF o.enc.st = "resolved"
                                                    THEN "upload" ELSE "gif"])

\* Step 4: await driveService.uploadTimelapseGif, cleanup, return true
RegenUpload(c) ==
    LET r == regen[c] IN
    /\ r.pc = "upload"
    /\ UNCHANGED <<janitor, retry, photo>>
    /\ UNCHANGED gen
    /\ \/ /\ NoFault
          /\ r.outputPath \in scratch
          /\ files' = UploadTimelapseGif(r.org, r.trail, r.enc.added)
          /\ nextId' = nextId + 1
          /\ scratch' = Cleanup(scratch, r.allImages, r.outputPath)
          /\ RegenReturn(c, [r EXCEPT !.uploaded = TRUE], "true", "published")
       \/ /\ \/ InjectFault
             \/ r.outputPath \notin scratch /\ NoFault
          /\ UNCHANGED <<files, nextId>>
          /\ RegenCatch(c, [r EXCEPT !.otherFail = TRUE], scratch)

\* regenerateAndStore from its call to its first await: the entry guard and
\* the lock
RegenCall(org, trail) ==
    IF Locked(LockKey(org, trail))
    THEN [NoRegen EXCEPT !.pc = "done", !.org = org, !.trail = trail,
                         !.result = "false", !.exit = "contention"]
    ELSE [NoRegen EXCEPT !.pc = "getGifs", !.org = org, !.trail = trail,
                         !.acquired = TRUE,
                         !.preGifs = {f.id : f \in CacheEntries(org, trail)}]

LocksAfterCallReleasing(org, trail) ==
    IF Locked(LockKey(org, trail))
    THEN regenerationLocks \ {LockKey(org, trail)}
    ELSE regenerationLocks \cup {LockKey(org, trail)}

\* the locks after the entry guard: a skipped call returns before the try
\* block and leaves the map alone, the others set their key
LocksAfterCall(org, trail) ==
    IF Locked(LockKey(org, trail))
    THEN regenerationLocks
    ELSE regenerationLocks \cup {LockKey(org, trail)}

(***************************************************************************)
(* POST /:orgName/:trailName/upload                                        *)
(*   pc: "idle" (no request yet), "unlink" (photo stored, awaiting         *)
(*       deleteFileIfExists), "done"                                       *)
(***************************************************************************)
NoUpload ==
    [pc |-> "idle", org |-> "", trail |-> "", tmp |-> FALSE, stored |-> FALSE,
     resp |-> "none", bg |-> "none"]

Started(c) == upl[c].pc # "idle" \/ regen[c].pc # "idle"

UploadResponseAwaited(call) == IF call.result = "false" THEN "500" ELSE "200"

\* res.json({success: true, ...}) after the background trigger
UploadResponse(call) == "200"

UploadErrorKeepsTemp(org, trail) ==
    [NoUpload EXCEPT !.pc = "done", !.org = org, !.trail = trail, !.tmp = TRUE,
                     !.resp = "500"]

\* the catch of the handler: cleanupTempFile(req), sendError(res, 500, ...)
UploadError(org, trail) ==
    [NoUpload EXCEPT !.pc = "done", !.org = org, !.trail = trail, !.tmp = FALSE,
                     !.resp = "500"]

\* the request arrives with its multer temp file; await driveService.uploadFile
UploadStore(h) ==
    /\ ~Started(h)
    /\ \A k \in Calls : k < h => Started(k)
    /\ UNCHANGED <<janitor, retry, photo>>
    /\ UNCHANGED <<scratch, regenerationLocks, regen, gen>>
    /\ \E org \in Orgs, trail \in Trails :
          \/ /\ NoFault
             /\ files' = UploadFile(org, trail)
             /\ nextId' = nextId + 1
             /\ upl' = [upl EXCEPT ![h] = [NoUpload EXCEPT !.pc = "unlink",
                            !.org = org, !.trail = trail, !.tmp = TRUE,
                            !.stored = TRUE]]
          \/ /\ InjectFault
             /\ UNCHANGED <<files, nextId>>
             /\ upl' = [upl EXCEPT ![h] = UploadError(org, trail)]

\* deleteFileIfExists settled: trigger the regeneration, answer the request
UploadRespond(h) ==
    LET u == upl[h]
        call == RegenCall(u.org, u.trail)
    IN
    /\ u.pc = "unlink"
    /\ UNCHANGED <<janitor, retry, photo>>
    /\ UNCHANGED <<files, nextId, scratch, gen, faults>>
    /\ regen' = [regen EXCEPT ![h] = call]
    /\ regenerationLocks' = LocksAfterCall(u.org, u.trail)
    /\ upl' = [upl EXCEPT ![h] = [u EXCEPT !.pc = "done", !.tmp = FALSE,
                   !.resp = UploadResponse(call),
                   !.bg = IF call.pc = "done" THEN BackgroundLog(call.result)
                          ELSE "none"]]

\* timelapseService.regenerateAndStore(orgSlug, trailName) called on its own
DirectCall(c) ==
    /\ ~Started(c)
    /\ \A k \in Calls : k < c => Started(k)
    /\ UNCHANGED <<janitor, retry, photo>>
    /\ UNCHANGED <<files, nextId, scratch, upl, gen, faults>>
    /\ \E org \in Orgs, trail \in Trails :
          /\ regen' = [regen EXCEPT ![c] = RegenCall(org, trail)]
          /\ regenerationLocks' = LocksAfterCall(org, trail)

(***************************************************************************)
(* POST /:orgName/generate-timelapse and TimelapseService.generateTimeLapse *)
(*   pc: "idle" (no request yet), "lookup" (await getTimelapseGif),        *)
(*       "cached" (await downloadFile of the cached animation),            *)
(*       "list", "download", "gif": the awaits of generateTimeLapse;       *)
(*       "done" (the response was sent, or sendFile failed)                *)
(* listed, failed, otherFail, served record what happened in the request.  *)
(***************************************************************************)
NoGen ==
    [pc |-> "idle", org |-> "", trailNames |-> <<>>, ti |-> 0,
     cached |-> {}, tempGifPath |-> NoPath,
     imageFiles |-> <<>>, di |-> 0, imageMetadata |-> <<>>,
     allImages |-> <<>>, outputPath |-> NoPath, enc |-> NoEnc,
     resp |-> "none", message |-> "", imageCount |-> 0,
     listed |-> {}, failed |-> {}, otherFail |-> FALSE, served |-> <<>>]

\* the bodies validateTimelapseRequest lets through
GenTrailNames == {<<"t1">>, <<"t2">>, <<"t1", "t2">>}

UsesCacheAnyCount(trailNames) == Len(trailNames) >= 1

\* trailNames && trailNames.length === 1: the request looks for a cached
\* animation
UsesCache(trailNames) == Len(trailNames) = 1

HitNever(existingGif) == FALSE

\* if (existingGif): getTimelapseGif resolved to a file, not to null
Hit(existingGif) == existingGif # {}

GenStay(g, r) == gen' = [gen EXCEPT ![g] = r]

GenGo(g, scr, r) == scratch' = scr /\ GenStay(g, r)

\* the message of the error generateTimeLapse throws after its loop
NoImagesError == "No images found in the specified trails."

\* the message of an error createGif rejects with
EncoderError == "createGif rejected"

GenFailNoResponse(g, r, scr, message) ==
    /\ scratch' = Cleanup(scr, Paths(r.imageMetadata), r.outputPath)
    /\ GenStay(g, [r EXCEPT !.pc = "done"])

\* generateTimeLapse cleans up and rethrows; the handler answers
\* sendError(res, 500, 'Timelapse generation failed', error.message)
GenFail(g, r, scr, message) ==
    /\ scratch' = Cleanup(scr, Paths(r.imageMetadata), r.outputPath)
    /\ GenStay(g, [r EXCEPT !.pc = "done", !.resp = "500", !.message = message])

\* the handler up to its first await
GenRequest(g) ==
    /\ gen[g].pc = "idle"
    /\ \A k \in Gens : k < g => gen[k].pc # "idle"
    /\ UNCHANGED <<janitor, retry, photo>>
    /\ UNCHANGED <<files, nextId, scratch, regenerationLocks, regen, upl, faults>>
    /\ \E org \in Orgs, trailNames \in GenTrailNames :
          GenStay(g, [NoGen EXCEPT !.org = org, !.trailNames = trailNames,
                                   !.ti = 1,
                                   !.pc = IF UsesCache(trailNames) THEN "lookup"
                                          ELSE "list"])

LookupErrorEndsAll == TRUE

\* the catch of the lookup block logs the error and lets the handler go on
\* to the generation
LookupErrorIsFatal == FALSE

\* the lookup block threw: its catch, then the generation
GenLookupCatch(g, r, scr) ==
    IF LookupErrorIsFatal
    THEN GenFail(g, [r EXCEPT !.otherFail = TRUE], scr, "lookup failed")
    ELSE GenGo(g, scr, [r EXCEPT !.pc = "list", !.otherFail = TRUE])

\* await driveService.getTimelapseGif; a failure is logged and generation
\* goes on
GenLookup(g) ==
    LET r == gen[g] IN
    /\ r.pc = "lookup"
    /\ UNCHANGED <<janitor, retry, photo>>
    /\ UNCHANGED <<files, nextId, regenerationLocks, regen, upl>>
    /\ \/ /\ NoFault
          /\ scratch' = scratch
          /\ \E existingGif \in GetTimelapseGif(r.org, r.trailNames[1]), now \in Times :
                IF Hit(existingGif)
                THEN GenStay(g, [r EXCEPT !.cached = existingGif, !.pc = "cached",
                        !.tempGifPath = CachedPath(r.org, r.trailNames[1], now)])
                ELSE GenStay(g, [r EXCEPT !.pc = "list"])
       \/ /\ InjectFault
          /\ GenLookupCatch(g, r, scratch)

\* await driveService.downloadFile(existingGif.id, tempGifPath), res.sendFile
\* and its callback; a failed download is caught by the lookup's try/catch
\* and generation goes on
GenCached(g) ==
    LET r == gen[g] IN
    /\ r.pc = "cached"
    /\ UNCHANGED <<janitor, retry, photo>>
    /\ UNCHANGED <<files, nextId, regenerationLocks, regen, upl>>
    /\ \/ /\ NoFault
          /\ \E f \in files : f.id \in r.cached
          /\ scratch' = scratch \ {r.tempGifPath}
          /\ GenStay(g, [r EXCEPT !.pc = "done", !.resp = "cached gif",
                 !.served = (CHOOSE f \in files : f.id \in r.cached).frames])
       \/ /\ \/ InjectFault
             \/ (\A f \in files : f.id \notin r.cached) /\ NoFault
          /\ GenLookupCatch(g, r, scratch \cup {r.tempGifPath})

\* generateTimeLapse after the loop over the trails: the empty check, the
\* sort, createGif up to its first await
GenAfterTrails(g, r, scr) ==
    IF Len(r.imageMetadata) = 0
    THEN GenFail(g, r, scr, NoImagesError)
    ELSE \E now \in Times :
           LET sorted == SortByCreatedTime(r.imageMetadata)
               allImages == Paths(sorted)
               outputPath == GenOutputPath(r.org, now)
           IN GenGo(g, scr, [r EXCEPT !.imageMetadata = sorted,
                                   !.allImages = allImages,
                                   !.outputPath = outputPath,
                                   !.enc = CreateGifCall(allImages, outputPath),
                                   !.pc = "gif"])

\* the end of one iteration of the loop over the trails
GenNextTrail(g, r, scr) ==
    IF r.ti = Len(r.trailNames)
    THEN GenAfterTrails(g, r, scr)
    ELSE GenGo(g, scr, [r EXCEPT !.ti = r.ti + 1, !.pc = "list"])

ListErrorEndsAll == TRUE

\* the try/catch around the body of the loop over the trails keeps a failed
\* listing from ending the operation
ListErrorIsFatal == FALSE

\* await driveService.listFilesInTrail inside the per-trail try/catch
GenList(g) ==
    LET r == gen[g] IN
    /\ r.pc = "list"
    /\ UNCHANGED <<janitor, retry, photo>>
    /\ UNCHANGED <<files, nextId, regenerationLocks, regen, upl>>
    /\ \/ /\ NoFault
          /\ \E listing \in ListFilesInTrail(r.org, r.trailNames[r.ti]) :
                LET imageFiles == ImageFilter(listing) IN
                IF Len(imageFiles) = 0
                THEN GenNextTrail(g, r, scratch)
                ELSE GenGo(g, scratch, [r EXCEPT !.imageFiles = imageFiles,
                        !.di = 1,
                        !.listed = r.listed \cup {f.id : f \in Range(imageFiles)},
                        !.pc = "download"])
       \/ /\ InjectFault
          /\ IF ListErrorIsFatal
             THEN GenFail(g, [r EXCEPT !.otherFail = TRUE], scratch, "list failed")
             ELSE GenNextTrail(g, [r EXCEPT !.otherFail = TRUE], scratch)

\* await driveService.downloadFile inside the per-file try/catch
GenDownload(g) ==
    LET r == gen[g]
        file == r.imageFiles[r.di]
        destPath == FramePath(r.org, r.trailNames[r.ti], file.id)
        nxt == [r EXCEPT !.di = r.di + 1]
        after(x) == IF r.di = Len(r.imageFiles)
                    THEN GenNextTrail(g, x, scratch \cup {destPath})
                    ELSE GenGo(g, scratch \cup {destPath}, x)
    IN
    /\ r.pc = "download"
    /\ UNCHANGED <<janitor, retry, photo>>
    /\ UNCHANGED <<files, nextId, regenerationLocks, regen, upl>>
    /\ \/ /\ NoFault
          /\ after([nxt EXCEPT !.imageMetadata = Append(r.imageMetadata,
                        [path |-> destPath, createdTime |-> GetTime(file.createdTime),
                         id |-> file.id])])
       \/ /\ InjectFault
          /\ IF DownloadErrorIsFatal
             THEN GenFail(g, [r EXCEPT !.failed = r.failed \cup {file.id}],
                          scratch \cup {destPath}, "download failed")
             ELSE after([nxt EXCEPT !.failed = r.failed \cup {file.id}])

PublishedAsCache(org, trailNames, frames) ==
    {GifFile(nextId, org, trailNames[1], frames)}

\* the objects generateTimeLapse and its handler put into the store: the
\* result {path, imageCount, tempFiles} is sent and deleted, never uploaded
PublishedByGenerate(org, trailNames, frames) == {}

\* await this.createGif; on success the handler sends the file and its
\* callback cleans up, on failure generateTimeLapse cleans up and rethrows
GenCreateGif(g) ==
    LET r == gen[g] IN
    /\ r.pc = "gif"
    /\ UNCHANGED <<janitor, retry, photo>>
    /\ UNCHANGED <<nextId, regenerationLocks, regen, upl>>
    /\ \E o \in CreateGifStep(r.enc, scratch) :
          LET x == [r EXCEPT !.enc = o.enc, !.otherFail = r.otherFail \/ o.bad] IN
          /\ IF o.fault THEN InjectFault ELSE NoFault
          /\ files' = IF o.enc.st = "resolved"
                       THEN files \cup PublishedByGenerate(r.org, r.trailNames,
                                                           o.enc.added)
                       ELSE files
          /\ IF o.enc.st = "rejected"
             THEN GenFail(g, x, o.scratch, EncoderError)
             ELSE IF o.enc.st = "resolved"
             THEN /\ scratch' = Cleanup(o.scratch, r.allImages, r.outputPath)
                  /\ GenStay(g, [x EXCEPT !.pc = "done",
                         !.imageCount = Len(r.allImages),
                         !.served = o.enc.added,
                         !.otherFail = x.otherFail \/ r.outputPath \notin o.scratch,
                         !.resp = IF r.outputPath \in o.scratch THEN "gif"
                                  ELSE "none"])
             ELSE /\ scratch' = o.scratch
                  /\ GenStay(g, x)

(***************************************************************************)
(* TimelapseService.cleanup on arbitrary arguments.                        *)
(* A value handed in as imagePaths is null, a string or an array whose     *)
(* entries are paths or null; outputPath is a path or null (NoPath).       *)
(* unlinkSync throws for the paths in `stuck` (EPERM, EBUSY).              *)
(***************************************************************************)
JsNull == [kind |-> "null", items |-> <<>>]

JsString == [kind |-> "string", items |-> <<>>]

JsArray(items) == [kind |-> "array", items |-> items]

\* fsSync.unlinkSync(path) inside try/catch: the directory afterwards
UnlinkSync(scr, path, stuck) == IF path \in stuck THEN scr ELSE scr \ {path}

\* imagePaths.forEach(img => { if (fsSync.existsSync(img)) ... })
RECURSIVE ForEachUnlink(_, _, _)
ForEachUnlink(scr, items, stuck) ==
    IF items = <<>> THEN scr
    ELSE ForEachUnlink(IF Head(items) \in scr
                       THEN UnlinkSync(scr, Head(items), stuck) ELSE scr,
                       Tail(items), stuck)

GuardNone(v) == TRUE

\* imagePaths && Array.isArray(imagePaths)
GuardArray(v) == v.kind # "null" /\ v.kind = "array"

\* cleanup(imagePaths, outputPath): the directory afterwards and whether the
\* call threw (forEach on a value that is not an array is a TypeError)
CleanupCall(scr, v, outputPath, stuck) ==
    IF GuardArray(v) /\ v.kind # "array"
    THEN [scratch |-> scr, threw |-> TRUE]
    ELSE LET afterImages == IF GuardArray(v)
                            THEN ForEachUnlink(scr, v.items, stuck) ELSE scr
         IN [scratch |-> IF outputPath # NoPath /\ outputPath \in afterImages
                         THEN UnlinkSync(afterImages, outputPath, stuck)
                         ELSE afterImages,
             threw |-> FALSE]

\* the paths the cleanup calls are tried on
CleanupPaths ==
    {FramePath("org", "t1", 1), FramePath("org", "t1", 2),
     RegenOutputPath("org", "t1")}

RECURSIVE SeqsUpTo(_, _)
SeqsUpTo(S, n) ==
    IF n = 0 THEN {<<>>}
    ELSE SeqsUpTo(S, n - 1)
         \cup {Append(q, x) : q \in {t \in SeqsUpTo(S, n - 1) : Len(t) = n - 1},
                              x \in S}

\* the values cleanup is called with as imagePaths
JsValues ==
    {JsNull, JsString}
    \cup {JsArray(q) : q \in SeqsUpTo(CleanupPaths \cup {NoPath}, MaxCleanupLen)}

NoJanitor ==
    [imagePaths |-> JsNull, outputPath |-> NoPath, stuck |-> {}, n |-> 0,
     before |-> {}, once |-> {}, threw |-> FALSE]

\* one more call of cleanup with the same arguments
CleanupAgain ==
    LET out == CleanupCall(scratch, janitor.imagePaths, janitor.outputPath,
                           janitor.stuck)
    IN
    /\ janitor.n < MaxCleanupCalls
    /\ scratch' = out.scratch
    /\ janitor' = [janitor EXCEPT !.n = janitor.n + 1,
                       !.threw = janitor.threw \/ out.threw,
                       !.once = IF janitor.n = 0 THEN out.scratch ELSE janitor.once]
    /\ UNCHANGED <<files, nextId, regenerationLocks, regen, upl, gen, faults>>
    /\ UNCHANGED <<retry, photo>>

(***************************************************************************)
(* The web client: retryWithBackoff.                                       *)
(***************************************************************************)
\* A thrown value: an Error with its name and its message, the message as the
\* sequence of the phrases String.includes and the regular expression look
\* for; or a value that has no message property.
JsError(name, message) == [name |-> name, hasMessage |-> TRUE, message |-> message]

\* undefined
NoError == [name |-> "undefined", hasMessage |-> FALSE, message |-> <<>>]

\* a thrown value that is no Error
BareThrow == [name |-> "string", hasMessage |-> FALSE, message |-> <<>>]

\* error.message.includes(...) where error.message is undefined
NoIncludes == JsError("TypeError", <<"Cannot read properties of undefined">>)

\* message.includes(phrase)
Includes(message, phrase) == \E i \in 1..Len(message) : message[i] = phrase

\* parseInt of a matched run of digits
ParseInt == ("500" :> 500) @@ ("501" :> 501) @@ ("502" :> 502) @@ ("503" :> 503)

\* message.match(/5\d{2}/): the first match, or none
Match5xx(message) ==
    LET hits == {i \in 1..Len(message) : message[i] \in DOMAIN ParseInt}
    IN  IF hits = {} THEN <<>>
        ELSE <<message[CHOOSE i \in hits : \A j \in hits : i <= j]>>

\* isRetryableError(error), for an error that has a message
IsRetryableError(error) ==
    LET m == error.message
    IN  IF \/ Includes(m, "Failed to fetch")
           \/ Includes(m, "NetworkError")
           \/ Includes(m, "ERR_CONNECTION_REFUSED")
           \/ Includes(m, "ERR_NETWORK")
           \/ Includes(m, "ERR_INTERNET_DISCONNECTED")
        THEN TRUE
        ELSE IF error.name = "TimeoutError" \/ Includes(m, "timeout")
        THEN TRUE
        ELSE IF /\ Includes(m, "status")
                /\ Match5xx(m) # <<>>
                /\ ParseInt[Match5xx(m)[1]] # 501
        THEN TRUE
        ELSE IF Includes(m, "429") \/ Includes(m, "Too Many Requests")
        THEN TRUE
        ELSE IF Includes(m, "408") \/ Includes(m, "Request Timeout")
        THEN TRUE
        ELSE FALSE

\* what fn rejects with
FnErrors ==
    {JsError("TypeError", <<"Failed to fetch">>),
     JsError("TimeoutError", <<"The operation was aborted">>),
     JsError("Error", <<"status", "503">>),
     JsError("Error", <<"status", "501">>),
     JsError("Error", <<"429">>),
     JsError("Error", <<"Upload failed">>),
     BareThrow}

\* how the n-th invocation of fn settles: with a result, or with an error
FnOutcomes(n) ==
    {[ok |-> TRUE, value |-> n, error |-> NoError]}
    \cup {[ok |-> FALSE, value |-> 0, error |-> e] : e \in FnErrors}

\* what an onRetry callback throws
CallbackError == JsError("Error", <<"onRetry failed">>)

\* calls, outcomes and onRetryLog record what the call did: the invocations
\* of fn, how each settled, and the attempt numbers handed to onRetry
NoRetry ==
    [pc |-> "idle", maxRetries |-> 0, hasOnRetry |-> FALSE, attempt |-> 0,
     lastError |-> NoError, sleepFor |-> 0, value |-> 0, thrown |-> NoError,
     calls |-> 0, outcomes |-> <<>>, onRetryLog |-> <<>>]

\* the head of the loop: fn() of the next attempt, or throw lastError
InvokeFn(r) ==
    IF r.attempt <= r.maxRetries
    THEN [r EXCEPT !.pc = "fn", !.calls = r.calls + 1]
    ELSE [r EXCEPT !.pc = "rejected", !.thrown = r.lastError]

\* retryWithBackoff(fn, {maxRetries, onRetry}) up to its first await
RetryWithBackoff(maxRetries, hasOnRetry) ==
    InvokeFn([NoRetry EXCEPT !.maxRetries = maxRetries, !.hasOnRetry = hasOnRetry])

ExhaustedNever(attempt, maxRetries) == FALSE

\* attempt === maxRetries
Exhausted(attempt, maxRetries) == attempt = maxRetries

\* Math.min(delay * Math.pow(backoffMultiplier, attempt), maxDelay)
CurrentDelay(attempt) ==
    LET d == InitialDelay * BackoffMultiplier ^ attempt
    IN  IF d <= MaxDelay THEN d ELSE MaxDelay

\* Math.random() * 0.3 * currentDelay: the ends of its range
Jitters(attempt) == {0, (3 * CurrentDelay(attempt)) \div 10 - 1}

\* await fn() settled with o: return, or the catch block up to its next await
FnSettled(r, o, jitter) ==
    LET seen == [r EXCEPT !.outcomes = Append(@, o)]
        caught == [seen EXCEPT !.lastError = o.error]
        waits == [caught EXCEPT !.sleepFor = CurrentDelay(r.attempt) + jitter]
    IN  IF o.ok
        THEN [seen EXCEPT !.pc = "resolved", !.value = o.value]
        ELSE IF ~o.error.hasMessage
        THEN [caught EXCEPT !.pc = "rejected", !.thrown = NoIncludes]
        ELSE IF ~IsRetryableError(o.error)
        THEN [caught EXCEPT !.pc = "rejected", !.thrown = o.error]
        ELSE IF Exhausted(r.attempt, r.maxRetries)
        THEN [caught EXCEPT !.pc = "rejected", !.thrown = o.error]
        ELSE IF r.hasOnRetry
        THEN [waits EXCEPT !.pc = "onRetry",
                           !.onRetryLog = Append(@, r.attempt + 1)]
        ELSE [waits EXCEPT !.pc = "sleep"]

\* await onRetry(attempt + 1, error) settled
OnRetrySettled(r, ok, error) ==
    IF ok THEN [r EXCEPT !.pc = "sleep"]
    ELSE [r EXCEPT !.pc = "rejected", !.thrown = error]

\* await sleep(delayWithJitter) settled: attempt++ and the head of the loop
Slept(r) == InvokeFn([r EXCEPT !.attempt = r.attempt + 1])

RetryCall ==
    /\ retry.pc = "idle"
    /\ retry' = InvokeFn(retry)
    /\ UNCHANGED <<server, photo>>

RetryFnSettles ==
    /\ retry.pc = "fn"
    /\ \E o \in FnOutcomes(retry.calls), jitter \in Jitters(retry.attempt) :
          retry' = FnSettled(retry, o, jitter)
    /\ UNCHANGED <<server, photo>>

RetryOnRetrySettles ==
    /\ retry.pc = "onRetry"
    /\ \E ok \in BOOLEAN : retry' = OnRetrySettled(retry, ok, CallbackError)
    /\ UNCHANGED <<server, photo>>

RetrySleepEnds ==
    /\ retry.pc = "sleep"
    /\ retry' = Slept(retry)
    /\ UNCHANGED <<server, photo>>

(***************************************************************************)
(* The web client: uploadPhoto and its entry in the upload queue.          *)
(***************************************************************************)
UploadStatus ==
    [PENDING |-> "pending", UPLOADING |-> "uploading", SUCCESS |-> "success",
     FAILED |-> "failed", RETRYING |-> "retrying"]

\* no entry under the call's id
Absent == "absent"

\* entry and retryCount are the queue entry of the call; written lists the
\* statuses the entry was given, accepted tells that performUpload resolved
NoPhoto ==
    [pc |-> "idle", file |-> FALSE, orgName |-> "", trailName |-> "",
     uiCallback |-> FALSE, entry |-> Absent, retryCount |-> 0, written |-> <<>>,
     error |-> NoError, outcome |-> "none", thrown |-> NoError, accepted |-> FALSE,
     timer |-> FALSE, storeFaults |-> 0]

\* what a failing queue call throws
StorageError == JsError("Error", <<"Database not initialized">>)

\* what the UI's onRetry callback throws
UiError == JsError("Error", <<"callback failed">>)

\* how performUpload settles: response.json() of an ok response, a rejected
\* fetch or new Error(...) of a response that is not ok
PerformOutcomes(n) == {o \in FnOutcomes(n) : o.ok \/ o.error.hasMessage}

\* a queue call succeeds, or fails while the run may see one more failure
StoreOutcomes(p) == IF p.storeFaults < MaxStoreFaults THEN BOOLEAN ELSE {TRUE}

StoreFailed(p) == [p EXCEPT !.storeFaults = p.storeFaults + 1]

\* storageService.addUpload(queuedUpload)
AddUpload(p, status) ==
    [p EXCEPT !.entry = status, !.retryCount = 0, !.written = Append(@, status)]

\* storageService.updateUpload(id, {status, ...})
UpdateUpload(p, status, retryCount) ==
    IF p.entry = Absent THEN p
    ELSE [p EXCEPT !.entry = status, !.retryCount = retryCount,
                   !.written = Append(@, status)]

\* catch (error): updateUpload(uploadId, {status: FAILED, ...}) is called
Catch(p, error) == [p EXCEPT !.pc = "markFailed", !.error = error]

\* uploadPhoto(processedImage, orgName, trailName, onRetry) up to its first
\* await
PhotoCall ==
    /\ photo.pc = "idle"
    /\ photo' =
          IF ~photo.file
          THEN [photo EXCEPT !.pc = "done", !.outcome = "rejected",
                             !.thrown = JsError("Error", <<"File is required for upload">>)]
          ELSE IF photo.orgName = ""
          THEN [photo EXCEPT !.pc = "done", !.outcome = "rejected",
                             !.thrown = JsError("Error", <<"Organization name is required">>)]
          ELSE IF photo.trailName = ""
          THEN [photo EXCEPT !.pc = "done", !.outcome = "rejected",
                             !.thrown = JsError("Error", <<"Trail name is required">>)]
          ELSE [photo EXCEPT !.pc = "add"]
    /\ UNCHANGED <<server, retry>>

\* await storageService.addUpload(queuedUpload)
PhotoAdd ==
    /\ photo.pc = "add"
    /\ \E ok \in StoreOutcomes(photo) :
          photo' = IF ok
                   THEN [AddUpload(photo, UploadStatus.PENDING)
                            EXCEPT !.pc = "markUploading"]
                   ELSE Catch(StoreFailed(photo), StorageError)
    /\ UNCHANGED <<server, retry>>

\* await updateUpload(UPLOADING), then retryWithBackoff up to its first await
PhotoMarkUploading ==
    /\ photo.pc = "markUploading"
    /\ \E ok \in StoreOutcomes(photo) :
          IF ok
          THEN /\ photo' = [UpdateUpload(photo, UploadStatus.UPLOADING, photo.retryCount)
                               EXCEPT !.pc = "retry"]
               /\ retry' = RetryWithBackoff(UploadMaxRetries, TRUE)
          ELSE /\ photo' = Catch(StoreFailed(photo), StorageError)
               /\ retry' = retry
    /\ UNCHANGED server

\* await fn() in retryWithBackoff: performUpload settled
PhotoAttempt ==
    /\ photo.pc = "retry"
    /\ retry.pc = "fn"
    /\ \E o \in PerformOutcomes(retry.calls), jitter \in Jitters(retry.attempt) :
          LET r == FnSettled(retry, o, jitter)
          IN  /\ retry' = r
              /\ photo' =
                    IF r.pc = "resolved"
                    THEN [photo EXCEPT !.pc = "markSuccess", !.accepted = TRUE]
                    ELSE IF r.pc = "rejected" THEN Catch(photo, r.thrown)
                    ELSE photo
    /\ UNCHANGED server

\* await onRetry(attempt + 1, error) in retryWithBackoff: the callback of
\* uploadPhoto, updateUpload(RETRYING) and then the UI's callback
PhotoOnRetry ==
    /\ photo.pc = "retry"
    /\ retry.pc = "onRetry"
    /\ \E ok \in StoreOutcomes(photo),
          uiThrows \in (IF photo.uiCallback THEN BOOLEAN ELSE {FALSE}) :
          LET attempt == retry.onRetryLog[Len(retry.onRetryLog)]
              marked == UpdateUpload(photo, UploadStatus.RETRYING, attempt)
          IN  IF ~ok
              THEN /\ retry' = OnRetrySettled(retry, FALSE, StorageError)
                   /\ photo' = Catch(StoreFailed(photo), StorageError)
              ELSE IF uiThrows
              THEN /\ retry' = OnRetrySettled(retry, FALSE, UiError)
                   /\ photo' = Catch(marked, UiError)
              ELSE /\ retry' = OnRetrySettled(retry, TRUE, NoError)
                   /\ photo' = marked
    /\ UNCHANGED server

\* await sleep(delayWithJitter) in retryWithBackoff
PhotoSleep ==
    /\ photo.pc = "retry"
    /\ retry.pc = "sleep"
    /\ retry' = Slept(retry)
    /\ UNCHANGED <<server, photo>>

\* await updateUpload(SUCCESS), setTimeout, return result
PhotoMarkSuccess ==
    /\ photo.pc = "markSuccess"
    /\ \E ok \in StoreOutcomes(photo) :
          photo' = IF ok
                   THEN [UpdateUpload(photo, UploadStatus.SUCCESS, photo.retryCount)
                            EXCEPT !.pc = "done", !.outcome = "resolved",
                                   !.timer = TRUE]
                   ELSE Catch(StoreFailed(photo), StorageError)
    /\ UNCHANGED <<server, retry>>

\* await updateUpload(FAILED) in the catch block, throw error
PhotoMarkFailed ==
    /\ photo.pc = "markFailed"
    /\ \E ok \in StoreOutcomes(photo) :
          photo' = IF ok
                   THEN [UpdateUpload(photo, UploadStatus.FAILED, photo.retryCount)
                            EXCEPT !.pc = "done", !.outcome = "rejected",
                                   !.thrown = photo.error]
                   ELSE [StoreFailed(photo)
                            EXCEPT !.pc = "done", !.outcome = "rejected",
                                   !.thrown = StorageError]
    /\ UNCHANGED <<server, retry>>

\* the timer set after a successful upload: deleteUpload(uploadId), a failure
\* of which is logged
PhotoExpire ==
    /\ photo.timer
    /\ \E ok \in StoreOutcomes(photo) :
          photo' = IF ok
                   THEN [photo EXCEPT !.timer = FALSE, !.entry = Absent]
                   ELSE [StoreFailed(photo) EXCEPT !.timer = FALSE]
    /\ UNCHANGED <<server, retry>>

(***************************************************************************)
(* The process.                                                            *)
(***************************************************************************)
\* The store before the first request: a text file, photos and cached
\* animations (stale duplicates included) in the hot trail, one photo in the
\* other trail.
InitialFiles(nImages, nGifs) ==
    {NoteFile(0, "org", HotTrail)}
    \cup {ImageFile(id, "org", HotTrail) : id \in 1..nImages}
    \cup {GifFile(id, "org", HotTrail, <<>>) : id \in (nImages + 1)..(nImages + nGifs)}
    \cup {ImageFile(nImages + nGifs + 1, "org", "t2")}

Init ==
    /\ \E nImages \in 0..MaxInitImages, nGifs \in 0..MaxInitGifs :
          /\ files = InitialFiles(nImages, nGifs)
          /\ nextId = nImages + nGifs + 2
    /\ scratch = {}
    /\ regenerationLocks = {}
    /\ regen = [c \in Calls |-> NoRegen]
    /\ upl = [h \in Calls |-> NoUpload]
    /\ gen = [g \in Gens |-> NoGen]
    /\ faults = 0
    /\ janitor = NoJanitor
    /\ retry = NoRetry
    /\ photo = NoPhoto

UploadStep(c) == UploadStore(c) \/ UploadRespond(c) \/ DirectCall(c)

RegenStep(c) ==
    \/ RegenGetGifs(c)
    \/ RegenDelete(c)
    \/ RegenSleep(c)
    \/ RegenList(c)
    \/ RegenDownload(c)
    \/ RegenCreateGif(c)
    \/ RegenUpload(c)

GenStep(g) ==
    \/ GenRequest(g)
    \/ GenLookup(g)
    \/ GenCached(g)
    \/ GenList(g)
    \/ GenDownload(g)
    \/ GenCreateGif(g)

\* Uploads and regenerations: MaxCalls calls, any interleaving.
Next ==
    \/ \E c \in Calls : UploadStep(c)
    \/ \E c \in Calls : RegenStep(c)

Spec == Init /\ [][Next]_vars

\* Every await of a regenerateAndStore call settles and the event loop runs
\* the continuation: a call that can take a step eventually takes one.
\* Nothing is assumed about the requests.
\* The store holds one photo and one cached animation in the hot trail
\* before the first request.
InitLive ==
    /\ Init
    /\ files = InitialFiles(1, 1)

SpecLive == InitLive /\ [][Next]_vars /\ \A c \in Calls : WF_vars(RegenStep(c))

\* One regeneration next to the generate-timelapse requests.
NextGen ==
    \/ UploadStep(1)
    \/ RegenStep(1)
    \/ \E g \in Gens : GenStep(g)

SpecGen == Init /\ [][NextGen]_vars

\* The store holds at most one cached animation per trail before the first
\* request.
InitOne ==
    /\ Init
    /\ \A org \in Orgs, trail \in Trails : Cardinality(CacheEntries(org, trail)) <= 1

SpecOne == InitOne /\ [][NextGen]_vars

\* cleanup called on its own: any directory, any arguments
InitCleanup ==
    /\ files = InitialFiles(0, 0)
    /\ nextId = 2
    /\ scratch \in SUBSET CleanupPaths
    /\ regenerationLocks = {}
    /\ regen = [c \in Calls |-> NoRegen]
    /\ upl = [h \in Calls |-> NoUpload]
    /\ gen = [g \in Gens |-> NoGen]
    /\ faults = 0
    /\ \E v \in JsValues, outputPath \in CleanupPaths \cup {NoPath},
          stuck \in SUBSET CleanupPaths :
          janitor = [NoJanitor EXCEPT !.imagePaths = v, !.outputPath = outputPath,
                                      !.stuck = stuck, !.before = scratch]
    /\ retry = NoRetry
    /\ photo = NoPhoto

NextCleanup == CleanupAgain

SpecCleanup == InitCleanup /\ [][NextCleanup]_vars

\* retryWithBackoff called on its own: any maxRetries (the default when the
\* option is left out), with or without an onRetry callback
InitRetry ==
    /\ files = InitialFiles(0, 0)
    /\ nextId = 2
    /\ scratch = {}
    /\ regenerationLocks = {}
    /\ regen = [c \in Calls |-> NoRegen]
    /\ upl = [h \in Calls |-> NoUpload]
    /\ gen = [g \in Gens |-> NoGen]
    /\ faults = 0
    /\ janitor = NoJanitor
    /\ photo = NoPhoto
    /\ \E maxRetries \in ((-1)..MaxRetriesTried) \cup {DefaultMaxRetries},
          hasOnRetry \in BOOLEAN :
          retry = [NoRetry EXCEPT !.maxRetries = maxRetries,
                                  !.hasOnRetry = hasOnRetry]

NextRetry ==
    \/ RetryCall
    \/ RetryFnSettles
    \/ RetryOnRetrySettles
    \/ RetrySleepEnds

\* fn, onRetry and the timer of sleep settle, and a settled await is continued
SpecRetry == InitRetry /\ [][NextRetry]_vars /\ WF_vars(NextRetry)

\* uploadPhoto called by the web client: any arguments
InitClient ==
    /\ files = InitialFiles(0, 0)
    /\ nextId = 2
    /\ scratch = {}
    /\ regenerationLocks = {}
    /\ regen = [c \in Calls |-> NoRegen]
    /\ upl = [h \in Calls |-> NoUpload]
    /\ gen = [g \in Gens |-> NoGen]
    /\ faults = 0
    /\ janitor = NoJanitor
    /\ retry = NoRetry
    /\ \E file \in BOOLEAN, orgName \in Orgs \cup {""}, trailName \in {HotTrail, ""},
          uiCallback \in BOOLEAN :
          photo = [NoPhoto EXCEPT !.file = file, !.orgName = orgName,
                                  !.trailName = trailName,
                                  !.uiCallback = uiCallback]

NextClient ==
    \/ PhotoCall
    \/ PhotoAdd
    \/ PhotoMarkUploading
    \/ PhotoAttempt
    \/ PhotoOnRetry
    \/ PhotoSleep
    \/ PhotoMarkSuccess
    \/ PhotoMarkFailed
    \/ PhotoExpire

SpecClient == InitClient /\ [][NextClient]_vars

(***************************************************************************)
(* Properties.                                                             *)
(***************************************************************************)
\* call c is past the entry guard and has not returned
InFlight(c) == regen[c].acquired /\ regen[c].pc # "done"

\* call c returns in this step
Returns(c) == regen[c].pc # "done" /\ regen'[c].pc = "done"

SameKey(a, b) == regen[a].org = regen[b].org /\ regen[a].trail = regen[b].trail

CacheIds(org, trail) == {f.id : f \in CacheEntries(org, trail)}

HasImages(org, trail) == \E f \in FilesInTrail(org, trail) : IsImageFile(f)

\* the call did none of the delete/fetch/encode/publish work
NoWork(r) ==
    /\ r.existingGifs = <<>> /\ r.imageFiles = <<>> /\ r.imageMetadata = <<>>
    /\ r.enc = NoEnc /\ r.outputPath = NoPath /\ ~r.uploaded

\* C1: of the regenerateAndStore calls on one (organization, trail) key at
\* most one at a time is past the entry guard; a call that starts while the
\* key is locked returns false in that very step, has done no work and is not
\* queued (it never gets past the guard later).
C1_AtMostOneRegeneration ==
    [][ /\ \A a, b \in Calls :
             (a # b /\ InFlight(a) /\ InFlight(b)) => ~SameKey(a, b)
        /\ \A c \in Calls :
             (regen[c].pc = "idle" /\ regen'[c].pc # "idle"
                /\ \E b \in Calls : b # c /\ InFlight(b)
                      /\ regen[b].org = regen'[c].org
                      /\ regen[b].trail = regen'[c].trail)
             => (regen'[c].pc = "done" /\ regen'[c].result = "false"
                   /\ ~regen'[c].acquired /\ NoWork(regen'[c]))
        /\ \A c \in Calls : regen[c].pc = "done" => regen'[c] = regen[c] ]_vars

C1_Witness ==
    \E a, b \in Calls :
        /\ InFlight(a) /\ regen[a].pc = "download"
        /\ regen[b].pc = "done" /\ regen[b].exit = "contention"
        /\ SameKey(a, b)

\* C2: the lock of a key is in regenerationLocks exactly while one call that
\* acquired it is in flight; hence it is absent when such a call has returned,
\* whatever the exit path.
C2_LockLifetime ==
    \A org \in Orgs, trail \in Trails :
        LET holders == {c \in Calls : InFlight(c) /\ regen[c].org = org
                                        /\ regen[c].trail = trail}
        IN IF LockKey(org, trail) \in regenerationLocks
           THEN Cardinality(holders) = 1
           ELSE holders = {}

C2_Witness ==
    \E a, b \in Calls :
        /\ regen[a].pc = "done" /\ regen[a].acquired /\ regen[a].exit = "caught"
        /\ regen[b].pc = "done" /\ regen[b].acquired /\ regen[b].exit = "published"
        /\ SameKey(a, b)
        /\ LockKey(regen[a].org, regen[a].trail) \notin regenerationLocks

\* C3 (as claimed): when a call returns true the store holds exactly one cache
\* entry for the trail and none of the entries that were there before the call.
C3_ExactlyOneAfterTrue ==
    [][ \A c \in Calls :
          (Returns(c) /\ regen'[c].result = "true") =>
              /\ Cardinality(CacheEntries(regen[c].org, regen[c].trail)') = 1
              /\ CacheIds(regen[c].org, regen[c].trail)' \cap regen[c].preGifs = {} ]_vars

\* C4 (as claimed): starting with at most one cache entry per trail, every
\* reachable state has at most one cache entry per trail.
C4_AtMostOneCacheEntry ==
    \A org \in Orgs, trail \in Trails : Cardinality(CacheEntries(org, trail)) <= 1

\* C5 (as claimed): a call for a trail without image objects returns false and
\* every cache entry that was there before the call is still there.
C5_EmptyTrailKeepsCache ==
    [][ \A c \in Calls :
          (Returns(c) /\ regen[c].acquired
             /\ ~HasImages(regen[c].org, regen[c].trail)') =>
              /\ regen'[c].result = "false"
              /\ regen[c].preGifs \subseteq CacheIds(regen[c].org, regen[c].trail)' ]_vars

\* C6: regenerateAndStore never throws: a call that returns resolves to true
\* or to false, and to true exactly when its upload put a new cache entry of
\* its trail into the store.
C6_NeverThrows ==
    [][ \A c \in Calls :
          Returns(c) =>
              /\ regen'[c].result \in {"true", "false"}
              /\ regen'[c].result = "true" <=>
                    \E f \in files' \ files :
                        /\ f.name = CacheName
                        /\ f.org = regen'[c].org /\ f.trail = regen'[c].trail ]_vars

C6_Witness ==
    \E a, b \in Calls :
        /\ regen[a].pc = "done" /\ regen[a].exit = "caught" /\ regen[a].result = "false"
        /\ regen[b].pc = "done" /\ regen[b].exit = "published" /\ regen[b].result = "true"

\* C7 (as claimed): when a call fails during fetch, encode or publish, the
\* cache entries that were there before the call are still in the store.
C7_FailureKeepsCache ==
    [][ \A c \in Calls :
          (Returns(c) /\ regen'[c].exit = "caught"
             /\ regen[c].pc \in {"list", "download", "gif", "upload"}) =>
              regen[c].preGifs \subseteq CacheIds(regen[c].org, regen[c].trail)' ]_vars

\* C8: the upload handler answers 200 for a stored photo in the step that
\* triggers the regeneration, while that call is still at its first await (or
\* was skipped at the guard); the response never changes afterwards, and the
\* outcome of the call only reaches the handler's log.
C8_UploadNotAffected ==
    [][ \A h \in Calls :
          /\ (upl[h].stored /\ upl[h].pc = "done") => upl[h].resp = "200"
          /\ upl[h].resp # "none" => upl'[h].resp = upl[h].resp
          /\ (upl[h].resp = "none" /\ upl'[h].resp = "200") =>
                /\ regen[h].pc = "idle"
                /\ regen'[h].pc = "getGifs" \/ regen'[h].exit = "contention"
          /\ (upl[h].stored /\ regen[h].pc = "done") =>
                upl[h].bg \in {"completed", "skipped or failed"} ]_vars

C8_Witness ==
    \E h \in Calls :
        /\ upl[h].resp = "200"
        /\ regen[h].pc = "done" /\ regen[h].exit = "caught"
        /\ upl[h].bg = "skipped or failed"

\* the capture time the store reports for the frame behind a downloaded path
CapturedAt(meta, path) ==
    LET m == CHOOSE x \in Range(meta) : x.path = path
        f == CHOOSE x \in files : x.id = m.id
    IN GetTime(f.createdTime)

StrictlyAscending(meta, paths) ==
    \A i, j \in 1..Len(paths) :
        i < j => CapturedAt(meta, paths[i]) < CapturedAt(meta, paths[j])

\* the operation handed its frames to the encoder
Encoding(r) == r.enc.st # "idle"

OrderedFrames(r) ==
    Encoding(r) =>
        /\ Range(r.enc.paths) = {m.path : m \in Range(r.imageMetadata)}
        /\ Len(r.enc.paths) = Len(r.imageMetadata)
        /\ StrictlyAscending(r.imageMetadata, r.enc.paths)
        /\ StrictlyAscending(r.imageMetadata, r.enc.added)

\* C9: in regenerateAndStore and in generateTimeLapse the frames handed to the
\* encoder are all the downloaded frames in ascending capture time, and the
\* encoder adds frames in ascending capture time.
C9_FramesAscending ==
    /\ \A c \in Calls : OrderedFrames(regen[c])
    /\ \A g \in Gens : OrderedFrames(gen[g])

C9_Witness ==
    \E g \in Gens, f \in files :
        /\ gen[g].pc = "done" /\ gen[g].resp = "gif"
        /\ gen[g].trailNames = <<"t1", "t2">>
        /\ Len(gen[g].served) >= 2
        /\ f.trail = "t2"
        /\ gen[g].served[1] = FramePath(f.org, f.trail, f.id)

\* the paths of the listed frames that were downloaded, oldest first
ExpectedFrames(listed, failed) ==
    LET kept == {f \in files : f.id \in listed \ failed}
        asc == Ascending(kept)
    IN [i \in 1..Len(asc) |-> FramePath(asc[i].org, asc[i].trail, asc[i].id)]

\* C10: when exactly one of N >= 2 frame downloads fails and nothing else does,
\* the animation holds the other N - 1 frames in ascending capture time and the
\* operation succeeds: regenerateAndStore returns true, generateTimeLapse
\* resolves with imageCount N - 1.
C10_OneDownloadFails ==
    /\ \A c \in Calls :
          LET r == regen[c]
              listed == {f.id : f \in Range(r.imageFiles)}
          IN (r.pc = "done" /\ Cardinality(listed) >= 2
                /\ Cardinality(r.failed) = 1 /\ ~r.otherFail) =>
                 /\ r.result = "true"
                 /\ r.enc.added = ExpectedFrames(listed, r.failed)
                 /\ Len(r.enc.added) = Cardinality(listed) - 1
    /\ \A g \in Gens :
          LET r == gen[g] IN
          (r.pc = "done" /\ Cardinality(r.listed) >= 2
             /\ Cardinality(r.failed) = 1 /\ ~r.otherFail) =>
                 /\ r.resp = "gif"
                 /\ r.imageCount = Cardinality(r.listed) - 1
                 /\ r.served = ExpectedFrames(r.listed, r.failed)

C10_Witness ==
    \E c \in Calls :
        /\ regen[c].pc = "done" /\ regen[c].result = "true"
        /\ Len(regen[c].imageFiles) >= 2
        /\ Cardinality(regen[c].failed) = 1
        /\ Len(regen[c].enc.added) = Len(regen[c].imageFiles) - 1

\* the ids of the frames the operation has downloaded
Downloaded(r) == {m.id : m \in Range(r.imageMetadata)}

\* the step ends the loop of generateTimeLapse over the requested trails
LastTrailEnds(g) ==
    /\ gen[g].pc \in {"list", "download"}
    /\ gen[g].ti = Len(gen[g].trailNames)
    /\ gen'[g].pc \notin {"list", "download"}

\* a listing or a download of the request fails in the step
FetchFails(g) ==
    /\ gen[g].pc \in {"list", "download"}
    /\ gen'[g] # gen[g]
    /\ faults' # faults

\* C11: generateTimeLapse fails with the no-images error exactly in the step
\* that ends the loop over the requested trails with zero downloaded frames;
\* a failed listing or download drops nothing that was downloaded before and
\* ends the request only when it ends the last trail with zero frames; the
\* frames handed to the encoder are all listed frames whose download succeeded.
C11_NoImagesOnlyWhenZeroFrames ==
    [][ \A g \in Gens :
          /\ gen'[g] # gen[g] =>
                ((gen'[g].message = NoImagesError)
                    <=> (LastTrailEnds(g) /\ Len(gen'[g].imageMetadata) = 0))
          /\ FetchFails(g) =>
                /\ Downloaded(gen'[g]) = Downloaded(gen[g])
                /\ gen'[g].pc = "done" =>
                      (LastTrailEnds(g) /\ Len(gen[g].imageMetadata) = 0)
          /\ (gen[g].pc \in {"list", "download"} /\ gen'[g].pc = "gif") =>
                /\ Downloaded(gen'[g]) = gen'[g].listed \ gen'[g].failed
                /\ Range(gen'[g].enc.paths)
                      = {m.path : m \in Range(gen'[g].imageMetadata)} ]_vars

\* a two-trail request whose first listing failed served the frame of the
\* second trail, although the first trail holds a photo
C11_Witness ==
    \E g \in Gens, f \in files :
        /\ gen[g].pc = "done" /\ gen[g].resp = "gif"
        /\ gen[g].trailNames = <<"t1", "t2">>
        /\ gen[g].otherFail /\ gen[g].failed = {} /\ faults = MaxFaults
        /\ Len(gen[g].served) = 1
        /\ f.trail = "t1" /\ IsImageFile(f) /\ f.id = 1
        /\ f.id \notin gen[g].listed

\* a listed object that may be a frame: its mime type begins with image/ and
\* it does not carry the reserved name of the cached animation
MayBeFrame(f) ==
    /\ Len(f.mimeType) > 0 /\ f.mimeType[1] = "image"
    /\ f.name # "_timelapse.gif"

\* C12: in regenerateAndStore and in generateTimeLapse every object kept from
\* a listing is an image that is not the cached animation, every downloaded
\* frame is such an object, and the encoder is handed downloaded frames only.
C12_NoCacheEntryAsFrame ==
    [][ /\ \A c \in Calls :
             LET r == regen'[c] IN
             /\ \A f \in Range(r.imageFiles) : MayBeFrame(f)
             /\ Downloaded(r) \subseteq {f.id : f \in Range(r.imageFiles)}
             /\ Range(r.enc.paths) \subseteq {m.path : m \in Range(r.imageMetadata)}
        /\ \A g \in Gens :
             LET r == gen'[g] IN
             /\ \A f \in Range(r.imageFiles) : MayBeFrame(f)
             /\ r.listed \subseteq
                   gen[g].listed \cup {f.id : f \in Range(r.imageFiles)}
             /\ Downloaded(r) \subseteq r.listed
             /\ Range(r.enc.paths) \subseteq {m.path : m \in Range(r.imageMetadata)} ]_vars

\* a cached animation that was in the trail before the regeneration (its
\* delete failed) is still there while the regeneration and a request both
\* download the frames they kept from their listings of the trail
C12_Witness ==
    \E c \in Calls, g \in Gens :
        /\ regen[c].pc = "download" /\ gen[g].pc = "download"
        /\ gen[g].trailNames[gen[g].ti] = regen[c].trail
        /\ regen[c].preGifs \cap CacheIds(regen[c].org, regen[c].trail) # {}
        /\ \E f \in FilesInTrail(regen[c].org, regen[c].trail) : ~StartsWithImage(f.mimeType)

\* the request has done nothing of a generation: no listing kept, no frame
\* download, no call of createGif
NoGeneration(r) ==
    /\ r.imageFiles = <<>> /\ r.imageMetadata = <<>> /\ r.allImages = <<>>
    /\ r.listed = {} /\ r.failed = {}
    /\ r.enc = NoEnc /\ r.outputPath = NoPath /\ r.imageCount = 0

\* the handler of request g takes a step in which no store call fails
GenStepOk(g) == gen'[g] # gen[g] /\ faults' = faults

\* C13: a request naming one trail first looks for the cached animation; when
\* the trail has one, the lookup is a hit; the hit downloads that entry and
\* serves it when the entry is still in the store and the download does not
\* fail; up to and including that response the request has listed nothing,
\* downloaded no frame and encoded nothing.
C13_CacheHitServesCache ==
    [][ \A g \in Gens :
          LET r == gen[g]
              n == gen'[g]
          IN
          /\ (r.pc = "idle" /\ n.pc # "idle" /\ Len(n.trailNames) = 1) =>
                n.pc = "lookup"
          /\ (r.pc = "lookup" /\ GenStepOk(g)
                /\ CacheEntries(r.org, r.trailNames[1]) # {}) =>
                /\ n.pc = "cached"
                /\ n.cached # {} /\ n.cached \subseteq CacheIds(r.org, r.trailNames[1])
          /\ (r.pc = "cached" /\ GenStepOk(g)
                /\ \E f \in files : f.id \in r.cached) =>
                /\ n.pc = "done" /\ n.resp = "cached gif"
                /\ \E f \in files : f.id \in r.cached /\ n.served = f.frames
                /\ n.tempGifPath \notin scratch'
          /\ (n.pc \in {"lookup", "cached"} \/ n.resp = "cached gif") =>
                NoGeneration(n) ]_vars

\* a request was served the animation a regeneration had published
C13_Witness ==
    \E g \in Gens, c \in Calls :
        /\ regen[c].exit = "published" /\ Len(regen[c].enc.added) >= 1
        /\ gen[g].pc = "done" /\ gen[g].resp = "cached gif"
        /\ gen[g].trailNames = <<regen[c].trail>>
        /\ gen[g].served = regen[c].enc.added
        /\ NoGeneration(gen[g])

\* C14: a request naming more than one trail is never at the cache lookup or
\* at the download of a cached animation and is never answered with one; it
\* lists every requested trail before it encodes or answers, and the
\* animation it sends is the one its own createGif call wrote.
C14_MultiTrailNeverCached ==
    \A g \in Gens :
        LET r == gen[g] IN
        Len(r.trailNames) > 1 =>
            /\ r.pc \in {"list", "download", "gif", "done"}
            /\ r.cached = {} /\ r.tempGifPath = NoPath
            /\ r.resp \in {"none", "gif", "500"}
            /\ r.pc \in {"gif", "done"} => r.ti = Len(r.trailNames)
            /\ r.resp = "gif" =>
                  (r.enc.st = "resolved" /\ r.served = r.enc.added)

\* a two-trail request was answered with a fresh animation of both trails
\* while the first trail held a cached animation
C14_Witness ==
    \E g \in Gens :
        /\ gen[g].pc = "done" /\ gen[g].resp = "gif"
        /\ gen[g].trailNames = <<"t1", "t2">>
        /\ CacheEntries(gen[g].org, "t1") # {}
        /\ Len(gen[g].served) >= 2
        /\ \A c \in Calls : regen[c].pc = "idle"

HitBranchFails(g) ==
    /\ gen'[g] # gen[g]
    /\ \/ gen[g].pc = "lookup" /\ faults' # faults
       \/ /\ gen[g].pc = "cached"
          /\ faults' # faults \/ \A f \in files : f.id \notin gen[g].cached

\* the generation of request g ends in this step without an animation: zero
\* frames after the loop over the trails, or createGif rejected
GenerationFails(g) ==
    /\ gen[g].pc \in {"list", "download", "gif"}
    /\ gen'[g].pc = "done"
    /\ Len(gen'[g].imageMetadata) = 0 \/ gen'[g].enc.st = "rejected"

C17_GenerationFailureIs500 ==
    [][ \A g \in Gens :
          /\ GenerationFails(g) =>
                /\ gen[g].resp = "none" /\ gen'[g].resp = "500"
                /\ gen'[g].message =
                      (IF Len(gen'[g].imageMetadata) = 0 THEN NoImagesError
                       ELSE EncoderError)
                /\ gen'[g].served = <<>> /\ gen'[g].imageCount = 0
          /\ gen[g].pc = "done" => gen'[g] = gen[g] ]_vars

\* the encoder rejected after frames of two trails were downloaded, and the
\* request was answered 500
C17_Witness ==
    \E g \in Gens :
        /\ gen[g].pc = "done" /\ gen[g].resp = "500"
        /\ gen[g].message = EncoderError
        /\ gen[g].enc.st = "rejected"
        /\ Len(gen[g].imageMetadata) >= 2

\* the trail folder that holds the object with this id
TrailOf(id) == (CHOOSE f \in files : f.id = id).trail

\* the scratch files an operation created: a file per frame it started to
\* download, and the output of its encoder
CreatedFiles(r) ==
    {FramePath(r.org, TrailOf(id), id) : id \in Downloaded(r) \cup r.failed}
    \cup (IF r.enc.st \in {"idle", "first"} THEN {} ELSE {r.outputPath})

\* C18 (as claimed): in the step that ends a regenerateAndStore call or a
\* generateTimeLapse call with the cleanup of its handler (published, skipped
\* or failed), none of the scratch files the operation created is left.
C18_ScratchCleaned ==
    [][ /\ \A c \in Calls :
             (Returns(c) /\ regen[c].acquired) =>
                 CreatedFiles(regen'[c]) \cap scratch' = {}
        /\ \A g \in Gens :
             (gen[g].pc \in {"list", "download", "gif"} /\ gen'[g].pc = "done") =>
                 CreatedFiles(gen'[g]) \cap scratch' = {} ]_vars

\* the same, for operations in which no download failed
C18_CleanedWithoutFailedDownload ==
    [][ /\ \A c \in Calls :
             (Returns(c) /\ regen[c].acquired /\ regen'[c].failed = {}) =>
                 CreatedFiles(regen'[c]) \cap scratch' = {}
        /\ \A g \in Gens :
             (gen[g].pc \in {"list", "download", "gif"} /\ gen'[g].pc = "done"
                /\ gen'[g].failed = {}) =>
                 CreatedFiles(gen'[g]) \cap scratch' = {} ]_vars

\* request g is inside generateTimeLapse
Generating(g) == gen[g].pc \in {"list", "download", "gif"}

\* C19 (as claimed): operations that run at the same time (regenerateAndStore
\* calls, generateTimeLapse calls) have no scratch path in common, so none of
\* them writes, reads or deletes a scratch file another one created.
C19_ScratchPathsDisjoint ==
    /\ \A a, b \in Calls :
          (a # b /\ InFlight(a) /\ InFlight(b)) =>
              CreatedFiles(regen[a]) \cap CreatedFiles(regen[b]) = {}
    /\ \A c \in Calls, g \in Gens :
          (InFlight(c) /\ Generating(g)) =>
              CreatedFiles(regen[c]) \cap CreatedFiles(gen[g]) = {}
    /\ \A g, h \in Gens :
          (g # h /\ Generating(g) /\ Generating(h)) =>
              CreatedFiles(gen[g]) \cap CreatedFiles(gen[h]) = {}

\* the same, for regenerateAndStore calls only
C19_RegenerationsDisjoint ==
    \A a, b \in Calls :
        (a # b /\ InFlight(a) /\ InFlight(b)) =>
            CreatedFiles(regen[a]) \cap CreatedFiles(regen[b]) = {}

\* the paths a cleanup call is asked to delete
CleanupTargets(v, outputPath) ==
    (IF v.kind = "array" THEN Range(v.items) ELSE {}) \cup {outputPath}

\* C20: cleanup never throws, whatever imagePaths (null, not an array, an
\* array with entries that do not exist) and outputPath (null) are; after a
\* call the directory is what it was without the named files that could be
\* unlinked, so a path that does not exist changes nothing; and after a second
\* call with the same arguments the directory is what it was after the first.
\* On arrays of existing or missing paths it is the function the operations
\* of the service are modelled with.
C20_CleanupIdempotentTotal ==
    /\ ~janitor.threw
    /\ janitor.n >= 1 =>
          /\ scratch = janitor.before
                         \ (CleanupTargets(janitor.imagePaths, janitor.outputPath)
                               \ janitor.stuck)
          /\ scratch = janitor.once
    /\ (janitor.n = 0 /\ janitor.imagePaths.kind = "array" /\ janitor.stuck = {}) =>
          CleanupCall(scratch, janitor.imagePaths, janitor.outputPath, {}).scratch
             = Cleanup(scratch, janitor.imagePaths.items, janitor.outputPath)

\* cleanup was called twice with imagePaths null and an output path that
\* existed before the first call
C20_Witness ==
    /\ janitor.n = 2
    /\ janitor.imagePaths = JsNull
    /\ janitor.outputPath \in janitor.before
    /\ janitor.outputPath \notin scratch
    /\ scratch # {}

\* createGif of call c is at a loadImage and that load fails in this step,
\* although the file is there
LoadFails(c) ==
    /\ regen[c].pc = "gif"
    /\ regen[c].enc.st \in {"first", "frames"}
    /\ regen'[c] # regen[c]
    /\ faults' # faults

\* C21 (as claimed): when a frame cannot be decoded, at whatever position of
\* the list, createGif does not reject: it goes on with the frames added so
\* far and skips the frame.
C21_BadFrameSkipped ==
    [][ \A c \in Calls :
          LoadFails(c) =>
              /\ regen'[c].enc.st # "rejected"
              /\ regen'[c].enc.added = regen[c].enc.added ]_vars

\* the same, for the loads inside the frame loop only
C21_BadFrameSkippedInLoop ==
    [][ \A c \in Calls :
          (LoadFails(c) /\ regen[c].enc.st = "frames") =>
              /\ regen'[c].enc.st # "rejected"
              /\ regen'[c].enc.added = regen[c].enc.added ]_vars

\* C22 (as claimed): createGif never resolves with an animation of zero
\* frames (it rejects on an empty list and when every frame was skipped), and
\* regenerateAndStore never publishes an animation of zero frames.
C22_NoEmptyAnimation ==
    [][ \A c \in Calls :
          /\ (regen'[c].enc.st = "resolved" /\ regen[c].enc.st # "resolved") =>
                Len(regen'[c].enc.added) >= 1
          /\ \A f \in files' \ files :
                f.name = CacheName => Len(f.frames) >= 1 ]_vars

\* C23: createGif resolves only in the step in which the write stream
\* settles, after every frame of the list was tried and encoder.finish() was
\* called; regenerateAndStore reaches its upload only with a resolved
\* createGif; a write stream error in that step rejects createGif, and the
\* call ends in its catch without an upload.
C23_ResolvesAfterStreamFinish ==
    [][ \A c \in Calls :
          LET e == regen[c].enc
              n == regen'[c].enc
          IN
          /\ (n.st = "resolved" /\ e.st # "resolved") =>
                /\ e.st = "finishing" /\ e.i = Len(e.paths) + 1
                /\ faults' = faults
          /\ n.st = "finishing" => n.i = Len(n.paths) + 1
          /\ (regen'[c].pc = "upload" /\ regen[c].pc # "upload") =>
                (n.st = "resolved" /\ e.st = "finishing")
          /\ regen'[c].uploaded => n.st = "resolved"
          /\ (e.st = "finishing" /\ regen'[c] # regen[c] /\ faults' # faults) =>
                /\ n.st = "rejected"
                /\ regen'[c].exit = "caught" /\ ~regen'[c].uploaded ]_vars

\* the write stream failed after two frames were added: the call ended in
\* its catch without an upload
C23_Witness ==
    \E c \in Calls :
        /\ regen[c].pc = "done" /\ regen[c].exit = "caught"
        /\ regen[c].enc.st = "rejected"
        /\ regen[c].enc.i = Len(regen[c].enc.paths) + 1
        /\ Len(regen[c].enc.added) >= 2
        /\ ~regen[c].uploaded

\* organization slugs of the registry's kind and trail names the trail
\* middleware lets through (letters, digits, '-', '_', ' '), chosen so that
\* names run into each other when put side by side
KeyOrgs == Orgs \cup {"org-a"}

KeyTrails == Trails \cup {"-a-b", "-b", "a", "a-b"}

\* C24: a call is skipped at the entry guard only when a call for the same
\* organization and trail is in flight; a call that finds only calls for
\* other trails in flight acquires its lock; and different (organization,
\* trail) pairs have different lock keys.
C24_DifferentTrailsIndependent ==
    [][ /\ \A c \in Calls :
             (regen[c].pc = "idle" /\ regen'[c].pc # "idle") =>
                 LET same == \E b \in Calls :
                                /\ b # c /\ InFlight(b)
                                /\ regen[b].org = regen'[c].org
                                /\ regen[b].trail = regen'[c].trail
                 IN /\ regen'[c].exit = "contention" <=> same
                    /\ ~same => (regen'[c].acquired /\ regen'[c].pc = "getGifs")
        /\ \A o1, o2 \in KeyOrgs, t1, t2 \in KeyTrails :
             LockKey(o1, t1) = LockKey(o2, t2) => (o1 = o2 /\ t1 = t2) ]_vars

\* regenerations of the two trails of one organization download at the same
\* time
C24_Witness ==
    \E a, b \in Calls :
        /\ regen[a].org = regen[b].org
        /\ regen[a].trail = "t1" /\ regen[b].trail = "t2"
        /\ regen[a].pc = "download" /\ regen[b].pc = "download"
        /\ regenerationLocks = {LockKey("org", "t1"), LockKey("org", "t2")}

\* C25: when every await settles, every call that got past the entry guard
\* returns and every key that was locked is unlocked, whatever becomes of the
\* upload request that triggered the call: as the calls of a run are finitely
\* many, from some point on no call is in flight and no key is locked.
C25_EventuallyReleased ==
    <>[](/\ \A c \in Calls : ~InFlight(c)
         /\ regenerationLocks = {})

\* the request was answered long before: its regeneration failed at the
\* upload, returned, and the lock is gone
C25_Witness ==
    \E c \in Calls :
        /\ upl[c].pc = "done" /\ upl[c].resp = "200"
        /\ regen[c].pc = "done" /\ regen[c].acquired
        /\ regen[c].exit = "caught" /\ regen[c].enc.st = "resolved"
        /\ LockKey(regen[c].org, regen[c].trail) \notin regenerationLocks

\* call c is skipped at the entry guard in this step
Skipped(c) == regen[c].pc = "idle" /\ regen'[c].exit = "contention"

\* C26: the step in which a call is skipped at the entry guard changes
\* neither the store nor the scratch directory nor the locks; the skipped
\* call has done no work and takes no further step; and a key leaves the
\* locks only in the step in which the call that acquired it returns.
C26_SkipChangesNothing ==
    [][ /\ \A c \in Calls :
             Skipped(c) =>
                 /\ files' = files /\ nextId' = nextId /\ scratch' = scratch
                 /\ regenerationLocks' = regenerationLocks
                 /\ LockKey(regen'[c].org, regen'[c].trail) \in regenerationLocks'
                 /\ regen'[c].pc = "done" /\ regen'[c].result = "false"
                 /\ ~regen'[c].acquired /\ NoWork(regen'[c])
                 /\ \A b \in Calls : b # c => regen'[b] = regen[b]
        /\ \A c \in Calls :
             (regen[c].exit = "contention" /\ regen[c].pc = "done") =>
                 regen'[c] = regen[c]
        /\ \A key \in regenerationLocks \ regenerationLocks' :
             \E c \in Calls :
                 /\ Returns(c) /\ regen[c].acquired
                 /\ key = LockKey(regen[c].org, regen[c].trail) ]_vars

\* a call was skipped while the holder of the key was deleting the cached
\* animations; the holder is still in flight and the key still locked
C26_Witness ==
    \E a, b \in Calls :
        /\ SameKey(a, b)
        /\ regen[b].pc = "done" /\ regen[b].exit = "contention"
        /\ InFlight(a) /\ regen[a].pc = "upload"
        /\ regen[a].preGifs # {}
        /\ LockKey(regen[a].org, regen[a].trail) \in regenerationLocks

\* every request was answered, every triggered call has returned, and no
\* store call, decode or stream failed
Quiescent ==
    /\ faults = 0
    /\ \A c \in Calls :
          /\ upl[c].pc \in {"idle", "done"}
          /\ regen[c].pc \in {"idle", "done"}
          /\ regen[c].exit \in {"", "published", "contention"}

\* the scratch paths of the images that are in the trail
AllFramesOf(org, trail) ==
    {FramePath(org, trail, f.id) : f \in {x \in FilesInTrail(org, trail) : IsImageFile(x)}}

\* C27 (as claimed): at quiescence after photo uploads none of whose
\* regenerations failed, a trail that got a photo has a cache entry built from
\* every image of the trail.
C27_CacheReflectsAllUploads ==
    Quiescent =>
        \A h \in Calls :
            upl[h].stored =>
                \E f \in CacheEntries(upl[h].org, upl[h].trail) :
                    Range(f.frames) = AllFramesOf(upl[h].org, upl[h].trail)

\* the same, when no call was skipped at the entry guard
C27_ReflectsWithoutContention ==
    (Quiescent /\ \A c \in Calls : regen[c].exit # "contention") =>
        \A h \in Calls :
            upl[h].stored =>
                \E f \in CacheEntries(upl[h].org, upl[h].trail) :
                    Range(f.frames) = AllFramesOf(upl[h].org, upl[h].trail)

\* C28: the upload handler triggers regenerateAndStore only in the step that
\* answers a request whose photo is in the store, for the trail of the
\* request, and a triggered call is never started again; a request whose
\* photo could not be stored is answered 500, its temp file is gone and no
\* regeneration was or is triggered for it.
C28_TriggerOnlyAfterStore ==
    [][ \A h \in Calls :
          /\ (upl[h].pc # "idle" /\ regen[h].pc = "idle" /\ regen'[h].pc # "idle") =>
                /\ upl[h].stored /\ upl[h].pc = "unlink" /\ upl'[h].pc = "done"
                /\ \E f \in files : f.org = upl[h].org /\ f.trail = upl[h].trail
                                      /\ IsImageFile(f)
                /\ regen'[h].org = upl[h].org /\ regen'[h].trail = upl[h].trail
          /\ regen[h].pc # "idle" =>
                /\ regen'[h].pc # "idle"
                /\ regen'[h].pc = "getGifs" => regen[h].pc = "getGifs"
          /\ (upl'[h].pc = "done" /\ ~upl'[h].stored) =>
                /\ upl'[h].resp = "500" /\ ~upl'[h].tmp
                /\ regen'[h].pc = "idle"
                /\ upl[h].pc # "done" => files' = files ]_vars

\* the photo of one request could not be stored: 500, no regeneration; the
\* photo of the other was stored and its regeneration was triggered
C28_Witness ==
    \E a, b \in Calls :
        /\ upl[a].pc = "done" /\ ~upl[a].stored /\ upl[a].resp = "500"
        /\ regen[a].pc = "idle"
        /\ upl[b].pc = "done" /\ upl[b].stored /\ upl[b].resp = "200"
        /\ regen[b].pc = "done" /\ regen[b].exit = "published"

\* the retryWithBackoff call returned or threw
RetrySettled == retry.pc \in {"resolved", "rejected"}

\* fn settled with an error that isRetryableError tells to be retryable
Retryable(o) == ~o.ok /\ o.error.hasMessage /\ IsRetryableError(o.error)

\* the attempt numbers 1, 2, ..., n
Ident(n) == [i \in 1..n |-> i]

C29_CountsAndOutcome ==
    LET n == Len(retry.outcomes)
        last == retry.outcomes[n]
    IN
    /\ retry.calls <= retry.maxRetries + 1
    /\ retry.calls = IF retry.pc = "fn" THEN n + 1 ELSE n
    /\ \A i \in 1..(n - 1) : Retryable(retry.outcomes[i])
    /\ retry.pc = "resolved" <=> (n >= 1 /\ last.ok)
    /\ retry.pc = "resolved" => retry.value = last.value
    /\ (n >= 1 /\ ~last.ok /\ last.error.hasMessage /\ ~IsRetryableError(last.error)) =>
          /\ retry.pc = "rejected" /\ retry.thrown = last.error
          /\ Len(retry.onRetryLog) = IF retry.hasOnRetry THEN n - 1 ELSE 0
    /\ (n >= 1 /\ ~last.ok /\ ~last.error.hasMessage) =>
          /\ retry.pc = "rejected"
          /\ Len(retry.onRetryLog) = IF retry.hasOnRetry THEN n - 1 ELSE 0
    /\ (n >= 1 /\ n = retry.maxRetries + 1 /\ Retryable(last)) =>
          /\ retry.pc = "rejected" /\ retry.thrown = last.error
          /\ retry.thrown = retry.lastError
    /\ retry.onRetryLog =
          IF ~retry.hasOnRetry THEN <<>>
          ELSE IF retry.pc \in {"onRetry", "sleep"} THEN Ident(n)
          ELSE IF retry.pc = "rejected" /\ retry.thrown = CallbackError THEN Ident(n)
          ELSE Ident(retry.calls - 1)

\* C29: retryWithBackoff invokes fn at most maxRetries + 1 times and settles.
\* It returns the result of the first invocation that succeeds and invokes fn
\* no more; on an error that is not retryable it rethrows that error at once,
\* with no onRetry call for it and no further attempt; after maxRetries + 1
\* retryable failures it rethrows the last error; every invocation but the
\* last one failed with a retryable error, and onRetry is called exactly once
\* before each retry, with the attempt numbers 1, 2, ... in this order.
C29_BoundedRetriesSettle == []C29_CountsAndOutcome /\ <>RetrySettled

\* three retryable failures with maxRetries 2: fn was invoked three times,
\* onRetry was called with 1 and 2, the last error is rethrown
C29_Witness ==
    /\ retry.pc = "rejected"
    /\ retry.maxRetries = 2 /\ retry.hasOnRetry
    /\ retry.calls = 3
    /\ \A i \in 1..3 : Retryable(retry.outcomes[i])
    /\ retry.onRetryLog = <<1, 2>>
    /\ retry.thrown = retry.outcomes[3].error
    /\ retry.sleepFor >= CurrentDelay(1)

\* the uploadPhoto call resolved or rejected
PhotoSettled == photo.outcome # "none"

\* PENDING, UPLOADING, any number of RETRYING, then SUCCESS or FAILED
OnStatusPath(w) ==
    \A i \in 1..Len(w) :
        /\ i = 1 => w[i] = UploadStatus.PENDING
        /\ i = 2 => w[i] = UploadStatus.UPLOADING
        /\ i >= 3 =>
              /\ w[i] \in {UploadStatus.RETRYING, UploadStatus.SUCCESS,
                           UploadStatus.FAILED}
              /\ w[i - 1] \in {UploadStatus.UPLOADING, UploadStatus.RETRYING}

C30_EntryMatches ==
    /\ OnStatusPath(photo.written)
    /\ (PhotoSettled /\ photo.entry # Absent) =>
          /\ photo.entry \in {UploadStatus.SUCCESS, UploadStatus.FAILED}
          /\ photo.entry = UploadStatus.SUCCESS <=> photo.accepted
          /\ photo.entry = UploadStatus.SUCCESS <=> photo.outcome = "resolved"
          /\ photo.outcome = "rejected" => photo.entry = UploadStatus.FAILED

\* C30: when an uploadPhoto call has settled, its entry in the upload queue is
\* SUCCESS exactly if the server accepted the photo and exactly if the call
\* resolved, FAILED if the call rejected, never PENDING, UPLOADING or
\* RETRYING, and the statuses the entry was given follow PENDING, UPLOADING,
\* RETRYING any number of times, then SUCCESS or FAILED.
C30_StatusMatchesOutcome == C30_EntryMatches

\* the same, for the calls all of whose queue operations succeeded
C30_MatchesWhenQueueWorks == photo.storeFaults = 0 => C30_EntryMatches

\* the server accepted the photo after a retry and the entry is not SUCCESS
C30_AcceptedNotSuccess ==
    /\ PhotoSettled /\ photo.accepted
    /\ photo.entry \notin {Absent, UploadStatus.SUCCESS}
    /\ Len(retry.outcomes) >= 2

\* a call that rejected has left its entry in RETRYING
C30_LeftRetrying ==
    /\ PhotoSettled
    /\ photo.entry = UploadStatus.RETRYING

====
